---------------------------- MODULE Spec2Model ----------------------------
(***************************************************************************)
(* Model of the Dash job dashboard (gui.py): the API client helpers        *)
(* (list_jobs, jobRuns, lastRun), the derivation of a run's display state, *)
(* the card grid, the run table, and the callbacks that keep the jobs,     *)
(* selected_jobs and checkbox-states stores.                               *)
(*                                                                         *)
(* Python values are represented as follows.                               *)
(*   - An optional integer (run.get('start_time')) is a record             *)
(*     [isNone, v]; an optional list (a store's data, list_jobs()) is a    *)
(*     record [isNone, list].                                              *)
(*   - Strings that the code builds by concatenation or inspects by        *)
(*     character (names, str(job_id), durations, search text) are          *)
(*     sequences of one-character strings; enumeration-like strings        *)
(*     (states, colours, font weights) are TLA+ strings.                   *)
(*   - A call that raises returns a record that says so; a Dash callback   *)
(*     that raises updates none of its outputs.                            *)
(***************************************************************************)
EXTENDS Integers, Sequences, FiniteSets, TLC

VARIABLES
    jobs,                 \* dcc.Store 'jobs' (local storage)
    selected_jobs,        \* dcc.Store 'selected_jobs' (local storage)
    checkbox_states,      \* dcc.Store 'checkbox-states' (local storage)
    isRorL,               \* dcc.Store 'isRorL' (memory, 0 after every load)
    job_cards,            \* children of html.Div 'job-cards'
    button_click_output,  \* children of html.Div 'button-click-output'
    is_open,              \* 'configure-window'.is_open
    search_value,         \* 'job-search-bar'.value
    job_list_container,   \* children of 'job-list-container': the checkboxes
    persisted,            \* job ids whose checkbox holds a user-edited True
    page,                 \* "closed" | "hydrating" | "ready"
    event,                \* how the callbacks of the last event ended
    uc,                   \* inputs of the last update_cards call that returned
    api_runs,             \* derivation harness: runs/list response per job id
    now                   \* the wall clock, epoch milliseconds

vars == <<jobs, selected_jobs, checkbox_states, isRorL, job_cards,
          button_click_output, is_open, search_value, job_list_container,
          persisted, page, event, uc, api_runs, now>>

---------------------------------------------------------------------------
(* Bounds *)

MaxJobs == 2
MaxSeconds == 5

---------------------------------------------------------------------------
(* Python values *)

NoneInt == [isNone |-> TRUE, v |-> 0]
SomeInt(n) == [isNone |-> FALSE, v |-> n]
NoneList == [isNone |-> TRUE, list |-> <<>>]
SomeList(s) == [isNone |-> FALSE, list |-> s]

\* Python truthiness of an optional integer: None and 0 are false.
Truthy(t) == ~t.isNone /\ t.v # 0

Min(a, b) == IF a <= b THEN a ELSE b
Range(s) == {s[i] : i \in 1..Len(s)}

DigitChars == <<"0", "1", "2", "3", "4", "5", "6", "7", "8", "9">>

RECURSIVE StrNat(_)
StrNat(n) ==
    IF n < 10 THEN <<DigitChars[n + 1]>>
    ELSE StrNat(n \div 10) \o <<DigitChars[(n % 10) + 1]>>

\* str(n) of a Python int.
Str(n) == IF n < 0 THEN <<"-">> \o StrNat(-n) ELSE StrNat(n)

\* str(x) of an int or None.
StrOpt(t) == IF t.isNone THEN <<"N", "o", "n", "e">> ELSE Str(t.v)

\* int(x / d) of Python: truncation toward zero.
IntTrunc(x, d) == IF x >= 0 THEN x \div d ELSE -((-x) \div d)

NA == <<"N", "/", "A">>
SECOND == <<" ", "s", "e", "c", "o", "n", "d">>
SECONDS == <<" ", "s", "e", "c", "o", "n", "d", "s">>
JOB_ID_PREFIX == <<"J", "o", "b", " ", "I", "D", ":", " ">>

\* datetime.fromtimestamp(ms / 1000).strftime('%Y-%m-%d %H:%M:%S'): the
\* instant cut to whole seconds, rendered in the given format.
FormatTime(ms) == [fmt |-> "%Y-%m-%d %H:%M:%S", epoch_s |-> ms \div 1000]
NATime == [fmt |-> "N/A", epoch_s |-> 0]

---------------------------------------------------------------------------
(* The remote service: jobs *)

JobIds == 1..MaxJobs

\* What the service holds for a job id: 'settings.name' is optional.
JobSettingsName(id) ==
    CASE id = 1 -> [isNone |-> FALSE, s |-> <<"A">>]
      [] id = 2 -> [isNone |-> FALSE, s |-> <<"B">>]
      [] OTHER -> [isNone |-> TRUE, s |-> <<>>]

Job(id) == [job_id |-> id, name |-> JobSettingsName(id)]

\* job.get('settings', {}).get('name', f"Job ID: {job['job_id']}")
JobName(job) ==
    IF job.name.isNone THEN JOB_ID_PREFIX \o Str(job.job_id) ELSE job.name.s

\* Every list of distinct jobs the jobs/list endpoint may answer with.
JobLists ==
    UNION {{[i \in 1..n |-> Job(f[i])] :
               f \in {g \in [1..n -> JobIds] :
                         \A a, b \in 1..n : g[a] = g[b] => a = b}} :
           n \in 0..MaxJobs}

\* A jobs/list HTTP response; the service leaves 'jobs' out when it has none.
JobsResponses ==
    {[status_code |-> 200, jobs |-> l] : l \in JobLists}
        \cup {[status_code |-> 500, jobs |-> <<>>]}

---------------------------------------------------------------------------
(* The remote service: runs *)

Absent == "<absent>"

\* The instants (epoch ms) a run may start at; 0 is the falsy timestamp.
T0 == 10000
StartTimes == {0, T0}
ElapsedMs ==
    {0, 999, 1000, 1999, MaxSeconds * 1000, MaxSeconds * 1000 + 999}
EndTimes == {0} \cup {T0 + d : d \in ElapsedMs}
NowTimes == {T0 + 1000, T0 + 1999, T0 + MaxSeconds * 1000}

LifecycleStates == {"PENDING", "RUNNING", "TERMINATED", Absent}
ResultStates ==
    {"SUCCESS", "FAILED", "MAXIMUM_CONCURRENT_RUNS_REACHED", "CANCELED", Absent}

Run(st, et, lc, rs) ==
    [start_time |-> st, end_time |-> et, life_cycle_state |-> lc,
     result_state |-> rs]

\* Every run record of the derivation harness.
Runs ==
    {Run(st, et, lc, rs) :
        st \in {NoneInt} \cup {SomeInt(t) : t \in StartTimes},
        et \in {NoneInt} \cup {SomeInt(t) : t \in EndTimes},
        lc \in LifecycleStates, rs \in ResultStates}

RunsOk(rs) == [status_code |-> 200, runs |-> rs]
RunsFailed == [status_code |-> 500, runs |-> <<>>]

\* run.get('state', {}).get(key, 'N/A')
StateGet(v) == IF v = Absent THEN "N/A" ELSE v

---------------------------------------------------------------------------
(* gui.py: API client *)

\* list_jobs(): the parsed list, or None on a non-200 status.
list_jobs(response) ==
    IF response.status_code = 200 THEN SomeList(response.jobs) ELSE NoneList

\* jobRuns(job_id): the runs, or [] on a non-200 status. Never raises.
jobRuns(responseR) ==
    IF responseR.status_code = 200 THEN responseR.runs ELSE <<>>

\* calc_running_job_dur(start_time): whole seconds since start_time, or None.
calc_running_job_dur(start_time, current_time) ==
    IF Truthy(start_time)
    THEN SomeInt(IntTrunc(current_time - start_time.v, 1000))
    ELSE NoneInt

\* What lastRun hands back: None, an exception, or the run with its
\* derived display fields.
ReturnNone ==
    [kind |-> "None", formatted_start_time |-> NATime, formatted_duration |-> NA,
     result_state |-> "N/A", lifecycle_state |-> "N/A", result_color |-> "N/A",
     lifecycleFont |-> "N/A", resultFont |-> "N/A"]
Raises == [ReturnNone EXCEPT !.kind = "TypeError"]

\* Mutant of ResultColor: every result_state test before the lifecycle test.
ResultColorResultFirst(result_state, lifecycle_state) ==
    IF result_state = "SUCCESS" THEN "#008f00"
    ELSE IF result_state = "FAILED" THEN "red"
    ELSE IF result_state = "MAXIMUM_CONCURRENT_RUNS_REACHED" THEN "red"
    ELSE IF lifecycle_state = "RUNNING" THEN "#ed9a00"
    ELSE "gray"

\* Mutant of ResultColor: the lifecycle test before the result_state tests.
ResultColorRunningFirst(result_state, lifecycle_state) ==
    IF lifecycle_state = "RUNNING" THEN "#ed9a00"
    ELSE IF result_state = "SUCCESS" THEN "#008f00"
    ELSE IF result_state = "FAILED" THEN "red"
    ELSE IF result_state = "MAXIMUM_CONCURRENT_RUNS_REACHED" THEN "red"
    ELSE "gray"

\* Lines 151-152: the colour of a run, a chain of conditional expressions.
ResultColor(result_state, lifecycle_state) ==
    IF result_state = "SUCCESS" THEN "#008f00"
    ELSE IF result_state = "FAILED" THEN "red"
    ELSE IF lifecycle_state = "RUNNING" THEN "#ed9a00"
    ELSE IF result_state = "MAXIMUM_CONCURRENT_RUNS_REACHED" THEN "red"
    ELSE "gray"

\* Mutant of LifecycleFont: a pending run is not told from a finished one.
LifecycleFontRunningOnly(lifecycle_state) ==
    IF lifecycle_state = "RUNNING" THEN "bold" ELSE "normal"

\* Lines 157-162: which of the two texts is bold.
LifecycleFont(lifecycle_state) ==
    IF lifecycle_state = "RUNNING" \/ lifecycle_state = "PENDING"
    THEN "bold" ELSE "normal"
ResultFont(lifecycle_state) ==
    IF lifecycle_state = "RUNNING" \/ lifecycle_state = "PENDING"
    THEN "normal" ELSE "bold"

\* Lines 127-147 and 378-399: the duration text of a run whose start_time
\* and end_time are both integers (the subtraction has not raised).
FormattedDuration(start_time, end_time, lifecycle_state, current_time) ==
    LET duration_ms == end_time.v - start_time.v
        duration ==
            IF lifecycle_state = "RUNNING" \/ lifecycle_state = "PENDING"
            THEN calc_running_job_dur(start_time, current_time)
            ELSE SomeInt(duration_ms \div 1000)
    IN  IF duration = SomeInt(1)
        THEN (IF duration_ms # 0 THEN StrOpt(duration) \o SECOND ELSE NA)
        ELSE (IF duration_ms # 0 THEN StrOpt(duration) \o SECONDS ELSE NA)

\* Mutant of lastRun: a non-200 status raises instead of giving None.
lastRunStrict(responseR, current_time) ==
    IF responseR.status_code # 200 THEN Raises
    ELSE IF responseR.runs = <<>> THEN ReturnNone
    ELSE
      LET run == responseR.runs[1]
          result_state == StateGet(run.result_state)
          lifecycle_state == StateGet(run.life_cycle_state)
      IN  IF run.start_time.isNone \/ run.end_time.isNone THEN Raises
          ELSE
            [kind |-> "run",
             formatted_start_time |->
                 IF Truthy(run.start_time) THEN FormatTime(run.start_time.v)
                 ELSE NATime,
             formatted_duration |->
                 FormattedDuration(run.start_time, run.end_time,
                                   lifecycle_state, current_time),
             result_state |-> result_state,
             lifecycle_state |-> lifecycle_state,
             result_color |-> ResultColor(result_state, lifecycle_state),
             lifecycleFont |-> LifecycleFont(lifecycle_state),
             resultFont |-> ResultFont(lifecycle_state)]

\* lastRun(job_id): the most recent run with its display fields.
lastRun(responseR, current_time) ==
    IF responseR.status_code # 200 THEN ReturnNone
    ELSE IF responseR.runs = <<>> THEN ReturnNone
    ELSE
      LET run == responseR.runs[1]
          start_time == run.start_time
          end_time == run.end_time
          result_state == StateGet(run.result_state)
          lifecycle_state == StateGet(run.life_cycle_state)
      IN  IF start_time.isNone \/ end_time.isNone
          THEN Raises      \* end_time - start_time with a None operand
          ELSE
            [kind |-> "run",
             formatted_start_time |->
                 IF Truthy(start_time) THEN FormatTime(start_time.v) ELSE NATime,
             formatted_duration |->
                 FormattedDuration(start_time, end_time, lifecycle_state,
                                   current_time),
             result_state |-> result_state,
             lifecycle_state |-> lifecycle_state,
             result_color |-> ResultColor(result_state, lifecycle_state),
             lifecycleFont |-> LifecycleFont(lifecycle_state),
             resultFont |-> ResultFont(lifecycle_state)]

---------------------------------------------------------------------------
(* gui.py: the card grid and the run table *)

\* Mutant of Card: no bold text on the card of a job without a last run.
CardNoBold(job, last_run, idx) ==
    LET has == last_run.kind # "None"
        color == IF has THEN last_run.result_color ELSE "gray"
    IN  [job_id |-> job.job_id,
         title |-> JobName(job),
         color |-> color,
         lifecycle_text |-> IF has THEN last_run.lifecycle_state ELSE "N/A",
         lifecycle_weight |-> IF has THEN last_run.lifecycleFont ELSE "normal",
         result_text |-> IF has THEN last_run.result_state ELSE "N/A",
         result_weight |-> IF has THEN last_run.resultFont ELSE "normal",
         start_time_text |->
             IF has THEN last_run.formatted_start_time ELSE NATime,
         duration_text |-> IF has THEN last_run.formatted_duration ELSE NA,
         border_color |-> color,
         button_index |-> idx]

\* One dbc.Card of create_card_rows (lines 193-235), for a job and what
\* lastRun returned for it.
Card(job, last_run, idx) ==
    LET has == last_run.kind # "None"
        color == IF has THEN last_run.result_color ELSE "gray"
    IN  [job_id |-> job.job_id,
         title |-> JobName(job),
         color |-> color,
         lifecycle_text |-> IF has THEN last_run.lifecycle_state ELSE "N/A",
         lifecycle_weight |-> IF has THEN last_run.lifecycleFont ELSE "normal",
         result_text |-> IF has THEN last_run.result_state ELSE "N/A",
         result_weight |-> IF has THEN last_run.resultFont ELSE "bold",
         start_time_text |->
             IF has THEN last_run.formatted_start_time ELSE NATime,
         duration_text |-> IF has THEN last_run.formatted_duration ELSE NA,
         border_color |-> color,
         button_index |-> idx]

\* create_card_rows(jobs): lastRun of every job first (line 187), then one
\* card per job, numbered from 0 in list order. `runs_api` is the runs/list
\* response the service gives for each job id. Raises when jobs is None or
\* when a lastRun raises.
create_card_rows(jobs_arg, runs_api, current_time) ==
    IF jobs_arg.isNone THEN [raised |-> TRUE, rows |-> <<>>]
    ELSE
      LET js == jobs_arg.list
          last_run_details ==
              [id \in {js[i].job_id : i \in 1..Len(js)} |->
                  lastRun(runs_api[id], current_time)]
      IN  IF \E id \in DOMAIN last_run_details :
                 last_run_details[id].kind = "TypeError"
          THEN [raised |-> TRUE, rows |-> <<>>]
          ELSE [raised |-> FALSE,
                rows |-> [i \in 1..Len(js) |->
                             Card(js[i], last_run_details[js[i].job_id], i - 1)]]

\* initRunSection(): the run section before any click.
initRunSection == [title |-> <<>>, raised |-> FALSE, rows |-> <<>>]

\* One html.Tr of create_run_table (lines 368-415).
RunTableRow(run, job_name, current_time) ==
    LET result_state0 == StateGet(run.result_state)
        lifecycle_state == StateGet(run.life_cycle_state)
        result_state ==
            IF result_state0 = "MAXIMUM_CONCURRENT_RUNS_REACHED"
            THEN "MAX_CONC_RUNS" ELSE result_state0
    IN  [job_name |-> job_name,
         start_time |->
             IF Truthy(run.start_time) THEN FormatTime(run.start_time.v)
             ELSE NATime,
         duration |-> FormattedDuration(run.start_time, run.end_time,
                                        lifecycle_state, current_time),
         lifecycle_state |-> lifecycle_state,
         lifecycle_color |->
             IF lifecycle_state = "RUNNING" THEN "#ed9a00" ELSE "black",
         result_state |-> result_state,
         result_color |->
             IF result_state = "SUCCESS" THEN "#008f00"
             ELSE IF result_state = "FAILED" THEN "red"
             ELSE IF result_state = "MAX_CONC_RUNS" THEN "red"
             ELSE "black"]

\* create_run_table(runs, job_name): one row per run; line 378 raises on a
\* run whose start_time or end_time is None.
create_run_table(runs, job_name, current_time) ==
    IF \E i \in 1..Len(runs) : runs[i].start_time.isNone \/ runs[i].end_time.isNone
    THEN [title |-> job_name, raised |-> TRUE, rows |-> <<>>]
    ELSE [title |-> job_name, raised |-> FALSE,
          rows |-> [i \in 1..Len(runs) |->
                       RunTableRow(runs[i], job_name, current_time)]]

\* display_click for a click on the button with the given index (lines
\* 431-469): the run table of selected_jobs[index], from the runs the
\* service lists for that job id. Raises when the store holds no such
\* element or when create_run_table raises.
display_click(index, selected_jobs_state, runs_api, current_time) ==
    IF selected_jobs_state.isNone \/ index >= Len(selected_jobs_state.list)
    THEN [title |-> <<>>, raised |-> TRUE, rows |-> <<>>]
    ELSE LET job == selected_jobs_state.list[index + 1]
         IN  create_run_table(jobRuns(runs_api[job.job_id]), JobName(job),
                              current_time)

---------------------------------------------------------------------------
(* gui.py: the callbacks of the selection *)

NoneMap == [isNone |-> TRUE, map |-> <<>>]
SomeMap(m) == [isNone |-> FALSE, map |-> m]

\* Mutant of MapGet: a missing key counts as selected, get(key, True).
MapGetDefaultTrue(m, key) == IF key \in DOMAIN m THEN m[key] ELSE TRUE

\* checkbox_states.get(key): a missing key gives None, which is false.
MapGet(m, key) == IF key \in DOMAIN m THEN m[key] ELSE FALSE

\* Mutant of SelectJobs: the filter without the fallback of line 508.
SelectJobsNoFallback(checkbox_states_arg, job_list) ==
    IF checkbox_states_arg.isNone THEN job_list
    ELSE SelectSeq(job_list,
                   LAMBDA job : checkbox_states_arg.map # <<>>
                                /\ Str(job.job_id) \in DOMAIN checkbox_states_arg.map
                                /\ checkbox_states_arg.map[Str(job.job_id)])

\* Lines 503-509 of update_cards: the jobs to display.
SelectJobs(checkbox_states_arg, job_list) ==
    IF checkbox_states_arg.isNone THEN job_list
    ELSE LET selected_jobss ==
                 SelectSeq(job_list,
                           LAMBDA job : MapGet(checkbox_states_arg.map,
                                               Str(job.job_id)))
         IN  IF selected_jobss = <<>> THEN job_list ELSE selected_jobss

\* Lines 491-500 of update_cards: whether this call fetches the job list.
Fetches(trigger, isRorL_state) ==
    \/ trigger = "initial"
    \/ trigger = "checkbox-states.data" /\ isRorL_state = 0
    \/ trigger = "refresh-button.n_clicks"

\* Mutant of update_cards: the whole job list goes to the selected_jobs
\* store while the cards are built from the selection.
update_cardsStoresJobs(trigger, checkbox_states_arg, jobs_state, isRorL_state, response, runs_api, current_time) ==
    LET jobs1 == IF Fetches(trigger, isRorL_state)
                 THEN list_jobs(response) ELSE jobs_state
        selected_jobss ==
            IF jobs1.isNone THEN NoneList
            ELSE SomeList(SelectJobs(checkbox_states_arg, jobs1.list))
        rows == create_card_rows(selected_jobss, runs_api, current_time)
    IN  [raised |-> rows.raised,
         job_cards |-> rows.rows,
         selected_jobs |-> jobs1,
         jobs |-> jobs1,
         isRorL |-> IF trigger = "checkbox-states.data" /\ isRorL_state = 0
                    THEN 1 ELSE isRorL_state]

\* update_cards(n, checkbox_states, refreshB, jobs, isRorL). `trigger` is
\* context.triggered ("initial" when it is empty), `response` the jobs/list
\* response if the call fetches. Iterating None (line 507, or line 187 in
\* create_card_rows) raises.
update_cards(trigger, checkbox_states_arg, jobs_state, isRorL_state, response, runs_api, current_time) ==
    LET jobs1 == IF Fetches(trigger, isRorL_state)
                 THEN list_jobs(response) ELSE jobs_state
        isRorL1 == IF trigger = "checkbox-states.data" /\ isRorL_state = 0
                   THEN 1 ELSE isRorL_state
        selected_jobss ==
            IF jobs1.isNone THEN NoneList
            ELSE SomeList(SelectJobs(checkbox_states_arg, jobs1.list))
        rows == create_card_rows(selected_jobss, runs_api, current_time)
    IN  [raised |-> rows.raised,
         job_cards |-> rows.rows,
         selected_jobs |-> selected_jobss,
         jobs |-> jobs1,
         isRorL |-> isRorL1]

\* toggle_modal(n1, n2, is_open)
toggle_modal(n1, n2, is_open_state) ==
    IF n1 # 0 \/ n2 # 0 THEN ~is_open_state ELSE is_open_state

\* Mutant of update_checkbox_states: one key per job of the job list, false
\* for a job without a rendered checkbox.
update_checkbox_statesAllJobs(close_clicks, jobs_state, checkboxes) ==
    IF close_clicks = 0
    THEN [raised |-> FALSE, no_update |-> TRUE, data |-> NoneMap]
    ELSE IF jobs_state.isNone
    THEN [raised |-> TRUE, no_update |-> TRUE, data |-> NoneMap]
    ELSE
      LET l == jobs_state.list
          keys == {Str(l[i].job_id) : i \in 1..Len(l)}
      IN  [raised |-> FALSE, no_update |-> FALSE,
           data |-> SomeMap([k \in keys |->
                       \E i \in 1..Len(checkboxes) :
                           Str(checkboxes[i].index) = k /\ checkboxes[i].value])]

\* update_checkbox_states(close_clicks, jobs, checked_states, indexes): the
\* map of the first len(jobs) checkboxes; a later checkbox with the same key
\* overwrites an earlier one. len(None) raises once the loop body runs.
update_checkbox_states(close_clicks, jobs_state, checkboxes) ==
    IF close_clicks = 0
    THEN [raised |-> FALSE, no_update |-> TRUE, data |-> NoneMap]
    ELSE IF checkboxes # <<>> /\ jobs_state.isNone
    THEN [raised |-> TRUE, no_update |-> TRUE, data |-> NoneMap]
    ELSE
      LET n == Min(Len(checkboxes), Len(jobs_state.list))
          keys == {Str(checkboxes[i].index) : i \in 1..n}
          last(k) == CHOOSE i \in 1..n :
                        /\ Str(checkboxes[i].index) = k
                        /\ \A j \in 1..n :
                              Str(checkboxes[j].index) = k => j <= i
      IN  [raised |-> FALSE, no_update |-> FALSE,
           data |-> SomeMap([k \in keys |-> checkboxes[last(k)].value])]

---------------------------------------------------------------------------
(* gui.py: the selection modal *)

UPPER == <<"A", "B", "C", "D", "E", "F", "G", "H", "I", "J", "K", "L", "M",
           "N", "O", "P", "Q", "R", "S", "T", "U", "V", "W", "X", "Y", "Z">>
LOWER == <<"a", "b", "c", "d", "e", "f", "g", "h", "i", "j", "k", "l", "m",
           "n", "o", "p", "q", "r", "s", "t", "u", "v", "w", "x", "y", "z">>

\* str.lower(), per character.
LowerChar(c) ==
    IF \E i \in 1..26 : UPPER[i] = c
    THEN LOWER[CHOOSE i \in 1..26 : UPPER[i] = c] ELSE c
\* Mutant of Lower: the text is compared as typed.
LowerAsTyped(s) == s

Lower(s) == [i \in 1..Len(s) |-> LowerChar(s[i])]

\* Python's `q in s` on strings.
Contains(s, q) ==
    \E i \in 0..(Len(s) - Len(q)) : SubSeq(s, i + 1, i + Len(q)) = q

\* listOfJobsW(jobs, filter_text): one checkbox (value False) per job whose
\* name contains the text, case-insensitively. Iterating None raises.
listOfJobsW(jobs_arg, filter_text) ==
    IF jobs_arg.isNone THEN [raised |-> TRUE, rows |-> <<>>]
    ELSE
      LET filtered_jobs ==
              SelectSeq(jobs_arg.list,
                        LAMBDA job : Contains(Lower(JobName(job)),
                                              Lower(filter_text)))
      IN  [raised |-> FALSE,
           rows |-> [i \in 1..Len(filtered_jobs) |->
                        [index |-> filtered_jobs[i].job_id,
                         label |-> JobName(filtered_jobs[i]),
                         value |-> FALSE]]]

\* update_job_list(search_value, jobs); an empty search value (None or "")
\* is the empty sequence.
update_job_list(search_value_arg, jobs_arg) ==
    IF search_value_arg = <<>> THEN listOfJobsW(jobs_arg, <<>>)
    ELSE listOfJobsW(jobs_arg, search_value_arg)

\* persistence=True (line 269): a checkbox rendered with value False takes
\* the value the user last gave the checkbox of that id.
ApplyPersistence(checkboxes, persisted_state) ==
    [i \in 1..Len(checkboxes) |->
        [checkboxes[i] EXCEPT !.value = (checkboxes[i].index \in persisted_state)]]

\* deselectAll(DSAll_clicks, checkboxes): False for every checkbox.
deselectAll(DSAll_clicks, checkboxes) ==
    IF DSAll_clicks # 0
    THEN [i \in 1..Len(checkboxes) |-> [checkboxes[i] EXCEPT !.value = FALSE]]
    ELSE checkboxes

---------------------------------------------------------------------------
(* The dashboard as a state machine *)

\* What the search box is given.
SearchTexts == {<<>>, <<"a">>}

\* The runs/list responses the dashboard meets: a finished run, and an
\* active run without end_time.
DoneRun == Run(SomeInt(T0), SomeInt(T0 + 2000), "TERMINATED", "SUCCESS")
ActiveRun == Run(SomeInt(T0), NoneInt, "RUNNING", Absent)
DashRuns == {RunsOk(<<DoneRun>>), RunsOk(<<ActiveRun>>)}

\* event: which callback of the last event raised ("none" if none did) and
\* how its list_jobs call ended ("none" if it made none).
NoEvent == [raised |-> "none", list_jobs |-> "none"]
Event(raised, fetched) == [raised |-> raised, list_jobs |-> fetched]

NoCall == [returned |-> FALSE, checkbox_states |-> NoneMap]
Returned(cs) == [returned |-> TRUE, checkbox_states |-> cs]

IdleRuns == [id \in {1} |-> RunsFailed]

Init ==
    /\ jobs = NoneList
    /\ selected_jobs = NoneList
    /\ checkbox_states = NoneMap
    /\ isRorL = 0
    /\ job_cards = <<>>
    /\ button_click_output = initRunSection
    /\ is_open = FALSE
    /\ search_value = <<>>
    /\ job_list_container = <<>>
    /\ persisted = {}
    /\ page = "closed"
    /\ event = NoEvent
    /\ uc = NoCall
    /\ api_runs = IdleRuns
    /\ now = T0

\* The jobs/list responses a call may get: none matters unless it fetches.
ResponsesFor(trigger, isRorL_state) ==
    IF Fetches(trigger, isRorL_state) THEN JobsResponses
    ELSE {[status_code |-> 200, jobs |-> <<>>]}

\* The ids of the jobs whose last run a call of update_cards fetches.
ShownIds(trigger, cs, jobs_state, isRorL_state, response) ==
    LET jobs1 == IF Fetches(trigger, isRorL_state)
                 THEN list_jobs(response) ELSE jobs_state
        sel == IF jobs1.isNone THEN <<>> ELSE SelectJobs(cs, jobs1.list)
    IN  {sel[i].job_id : i \in 1..Len(sel)}

\* One call of update_cards, given what the service answers, and, when it
\* returns, of the callback its outputs trigger (update_job_list, on
\* 'jobs'). A call that raises leaves every output as it was (`isRorL0`,
\* `cards0`, `container0`).
UpdateCardsStep(trigger, cs, search, isRorL0, cards0, container0, response, runs_api) ==
        LET r == update_cards(trigger, cs, jobs, isRorL0, response, runs_api, now)
            fetched == IF ~Fetches(trigger, isRorL0) THEN "none"
                       ELSE IF response.status_code = 200 THEN "ok"
                       ELSE "failed"
        IN  IF r.raised
            THEN /\ UNCHANGED <<jobs, selected_jobs, uc>>
                 /\ isRorL' = isRorL0
                 /\ job_cards' = cards0
                 /\ job_list_container' = container0
                 /\ event' = Event("update_cards", fetched)
            ELSE /\ jobs' = r.jobs
                 /\ selected_jobs' = r.selected_jobs
                 /\ isRorL' = r.isRorL
                 /\ job_cards' = r.job_cards
                 /\ job_list_container' =
                        ApplyPersistence(update_job_list(search, r.jobs).rows,
                                         persisted)
                 /\ uc' = Returned(cs)
                 /\ event' = Event("none", fetched)

RunUpdateCards(trigger, cs, search, isRorL0, cards0, container0) ==
    \E response \in ResponsesFor(trigger, isRorL0) :
      \E runs_api \in
            [ShownIds(trigger, cs, jobs, isRorL0, response) -> DashRuns] :
        UpdateCardsStep(trigger, cs, search, isRorL0, cards0, container0,
                        response, runs_api)

\* The page is opened or reloaded: the memory store, the modal, the search
\* box and the layout start afresh, the local stores keep their data, and
\* update_cards runs with nothing triggered. The initial call reads the
\* checkbox-states store before or after it has loaded its data. If the
\* call raises, update_job_list still renders the modal's list from the
\* locally stored job list, if there is one.
PageLoad ==
    /\ \E cs \in {NoneMap, checkbox_states} :
          RunUpdateCards("initial", cs, <<>>, 0, <<>>,
                         IF jobs.isNone THEN <<>>
                         ELSE ApplyPersistence(update_job_list(<<>>, jobs).rows,
                                               persisted))
    /\ button_click_output' = initRunSection
    /\ is_open' = FALSE
    /\ search_value' = <<>>
    /\ page' = IF checkbox_states.isNone THEN "ready" ELSE "hydrating"
    /\ UNCHANGED <<checkbox_states, persisted, api_runs, now>>

\* The checkbox-states store hands its locally stored data to the page,
\* which triggers update_cards with 'checkbox-states.data'.
StoreHydrate ==
    /\ page = "hydrating"
    /\ RunUpdateCards("checkbox-states.data", checkbox_states,
                      search_value, isRorL, job_cards, job_list_container)
    /\ page' = "ready"
    /\ UNCHANGED <<checkbox_states, button_click_output, is_open, search_value,
                   persisted, api_runs, now>>

\* A click on the refresh button.
Refresh ==
    /\ page = "ready" /\ ~is_open
    /\ RunUpdateCards("refresh-button.n_clicks", checkbox_states,
                      search_value, isRorL, job_cards, job_list_container)
    /\ UNCHANGED <<checkbox_states, button_click_output, is_open, search_value,
                   persisted, page, api_runs, now>>

\* A click on the configure button: toggle_modal.
Configure ==
    /\ page = "ready" /\ ~is_open
    /\ is_open' = toggle_modal(1, 0, is_open)
    /\ event' = NoEvent
    /\ UNCHANGED <<jobs, selected_jobs, checkbox_states, isRorL, job_cards,
                   button_click_output, search_value, job_list_container,
                   persisted, page, uc, api_runs, now>>

\* The modal is dismissed (backdrop or Escape): no callback runs.
CloseModal ==
    /\ page = "ready" /\ is_open
    /\ is_open' = FALSE
    /\ event' = NoEvent
    /\ UNCHANGED <<jobs, selected_jobs, checkbox_states, isRorL, job_cards,
                   button_click_output, search_value, job_list_container,
                   persisted, page, uc, api_runs, now>>

\* The user ticks or unticks one checkbox of the modal.
EditCheckbox ==
    /\ page = "ready" /\ is_open
    /\ \E i \in 1..Len(job_list_container) :
          LET box == job_list_container[i]
          IN  /\ job_list_container' =
                     [job_list_container EXCEPT ![i].value = ~box.value]
              /\ persisted' = IF box.value THEN persisted \ {box.index}
                              ELSE persisted \cup {box.index}
    /\ event' = NoEvent
    /\ UNCHANGED <<jobs, selected_jobs, checkbox_states, isRorL, job_cards,
                   button_click_output, is_open, search_value, page, uc,
                   api_runs, now>>

\* The user changes the search text to one of `texts`: update_job_list.
TypeSearchOf(texts) ==
    /\ page = "ready" /\ is_open
    /\ \E text \in texts \ {search_value} :
          LET r == update_job_list(text, jobs)
          IN  /\ search_value' = text
              /\ job_list_container' =
                     IF r.raised THEN job_list_container
                     ELSE ApplyPersistence(r.rows, persisted)
              /\ event' = Event(IF r.raised THEN "update_job_list" ELSE "none",
                                "none")
    /\ UNCHANGED <<jobs, selected_jobs, checkbox_states, isRorL, job_cards,
                   button_click_output, is_open, persisted, page, uc,
                   api_runs, now>>

TypeSearch == TypeSearchOf(SearchTexts)

\* Mutant of SeeAll: the callback also writes the checkbox-states store.
SeeAllCommits ==
    /\ page = "ready" /\ is_open
    /\ job_list_container' = deselectAll(1, job_list_container)
    /\ persisted' = persisted \
           {job_list_container[i].index : i \in 1..Len(job_list_container)}
    /\ checkbox_states' =
           SomeMap([k \in {Str(job_list_container[i].index) :
                              i \in 1..Len(job_list_container)} |-> FALSE])
    /\ event' = NoEvent
    /\ UNCHANGED <<jobs, selected_jobs, isRorL, job_cards,
                   button_click_output, is_open, search_value, page, uc,
                   api_runs, now>>

\* A click on See All: deselectAll sets the value of every rendered
\* checkbox, which also ends the persistence of their edited values.
SeeAll ==
    /\ page = "ready" /\ is_open
    /\ job_list_container' = deselectAll(1, job_list_container)
    /\ persisted' = persisted \
           {job_list_container[i].index : i \in 1..Len(job_list_container)}
    /\ event' = NoEvent
    /\ UNCHANGED <<jobs, selected_jobs, checkbox_states, isRorL, job_cards,
                   button_click_output, is_open, search_value, page, uc,
                   api_runs, now>>

\* A click on Apply: toggle_modal and update_checkbox_states run; the new
\* checkbox-states data triggers update_cards.
Apply ==
    /\ page = "ready" /\ is_open
    /\ is_open' = toggle_modal(0, 1, is_open)
    /\ LET r == update_checkbox_states(1, jobs, job_list_container)
       IN  IF r.raised
           THEN /\ event' = Event("update_checkbox_states", "none")
                /\ UNCHANGED <<jobs, selected_jobs, checkbox_states, isRorL,
                               job_cards, job_list_container, uc>>
           ELSE /\ checkbox_states' = r.data
                /\ RunUpdateCards("checkbox-states.data", r.data,
                                  search_value, isRorL, job_cards,
                                  job_list_container)
    /\ UNCHANGED <<button_click_output, search_value, persisted, page,
                   api_runs, now>>

Next ==
    \/ PageLoad
    \/ StoreHydrate
    \/ Refresh
    \/ Configure
    \/ CloseModal
    \/ EditCheckbox
    \/ TypeSearch
    \/ SeeAll
    \/ Apply

Spec == Init /\ [][Next]_vars

---------------------------------------------------------------------------
(* The grid of a loaded page against every kind of run *)

\* The job lists of the grid: job 1 alone, or with job 2 on either side.
GridLists == {<<Job(1)>>, <<Job(1), Job(2)>>, <<Job(2), Job(1)>>}

\* What runs/list answers per job id: anything for job 1; for job 2 a
\* failed request, a finished run or an active run without end_time.
GridRuns(id) ==
    IF id = 1
    THEN {RunsFailed, RunsOk(<<>>)} \cup {RunsOk(<<r>>) : r \in Runs}
    ELSE {RunsFailed, RunsOk(<<DoneRun>>), RunsOk(<<ActiveRun>>)}

ListIds(l) == {l[i].job_id : i \in 1..Len(l)}

\* A page that was loaded at T0, when every job had a finished last run;
\* since then the clock and the runs of the service have moved on.
InitGrid ==
    \E l \in GridLists :
      \E r1 \in GridRuns(1),
         r2 \in IF 2 \in ListIds(l) THEN GridRuns(2) ELSE {RunsFailed} :
        /\ jobs = SomeList(l)
        /\ selected_jobs = SomeList(l)
        /\ checkbox_states = NoneMap
        /\ isRorL = 0
        /\ job_cards =
               create_card_rows(SomeList(l),
                                [id \in ListIds(l) |-> RunsOk(<<DoneRun>>)],
                                T0).rows
        /\ button_click_output = initRunSection
        /\ is_open = FALSE
        /\ search_value = <<>>
        /\ job_list_container = update_job_list(<<>>, SomeList(l)).rows
        /\ persisted = {}
        /\ page = "ready"
        /\ event = NoEvent
        /\ uc = Returned(NoneMap)
        /\ api_runs = [id \in ListIds(l) |-> IF id = 1 THEN r1 ELSE r2]
        /\ now \in NowTimes

\* A click on the refresh button; the service lists the same jobs, and the
\* runs it now holds.
RefreshGrid ==
    /\ page = "ready" /\ ~is_open
    /\ UpdateCardsStep("refresh-button.n_clicks", checkbox_states,
                       search_value, isRorL, job_cards, job_list_container,
                       [status_code |-> 200, jobs |-> jobs.list], api_runs)
    /\ UNCHANGED <<checkbox_states, button_click_output, is_open, search_value,
                   persisted, page, api_runs, now>>

\* A click on the Show All Runs button of a card: display_click.
ShowAllRuns ==
    /\ page = "ready" /\ ~is_open
    /\ \E i \in 1..Len(job_cards) :
          LET r == display_click(job_cards[i].button_index, selected_jobs,
                                 api_runs, now)
          IN  /\ button_click_output' =
                     IF r.raised THEN button_click_output ELSE r
              /\ event' = Event(IF r.raised THEN "display_click" ELSE "none",
                                "none")
    /\ UNCHANGED <<jobs, selected_jobs, checkbox_states, isRorL, job_cards,
                   is_open, search_value, job_list_container, persisted, page,
                   uc, api_runs, now>>

NextGrid ==
    \/ RefreshGrid
    \/ ShowAllRuns

SpecGrid == InitGrid /\ [][NextGrid]_vars

---------------------------------------------------------------------------
(* Properties of the dashboard (Spec) *)

JobKey(job) == Str(job.job_id)

\* The map selects the job: its key is present and maps to true.
Picked(cs, job) ==
    /\ ~cs.isNone
    /\ \E k \in DOMAIN cs.map : k = JobKey(job) /\ cs.map[k] = TRUE

\* C1: whenever update_cards has returned and the checkbox map it was given
\* is None or selects no job of the job list, selected_jobs is the whole
\* job list in the same order; and a non-empty job list never leaves
\* selected_jobs empty.
C1_FallbackShowsAll ==
    uc.returned =>
        /\ ~jobs.isNone /\ ~selected_jobs.isNone
        /\ (\A i \in 1..Len(jobs.list) :
                ~Picked(uc.checkbox_states, jobs.list[i]))
               => selected_jobs.list = jobs.list
        /\ jobs.list # <<>> => selected_jobs.list # <<>>

\* C1 witness: the map is true only for a job id that is not in the
\* non-empty job list, and the whole list is displayed.
C1_StaleSelectionReached ==
    /\ uc.returned /\ ~uc.checkbox_states.isNone
    /\ jobs.list # <<>>
    /\ \E k \in DOMAIN uc.checkbox_states.map : uc.checkbox_states.map[k] = TRUE
    /\ \A i \in 1..Len(jobs.list) : ~Picked(uc.checkbox_states, jobs.list[i])
    /\ selected_jobs.list = jobs.list

\* C2: when update_cards has returned and the map it was given selects at
\* least one job of the job list, selected_jobs holds exactly the selected
\* jobs, each once, in job-list order.
C2_FilterKeepsExactlySelected ==
    LET l == jobs.list
        s == selected_jobs.list
        cs == uc.checkbox_states
    IN  (uc.returned /\ \E i \in 1..Len(l) : Picked(cs, l[i])) =>
            /\ \A i \in 1..Len(l) :
                  Picked(cs, l[i]) <=> \E k \in 1..Len(s) : s[k] = l[i]
            /\ \A k \in 1..Len(s) : \E i \in 1..Len(l) : s[k] = l[i]
            /\ Len(s) = Cardinality({i \in 1..Len(l) : Picked(cs, l[i])})
            /\ \A a, b \in 1..Len(s) :
                  a < b => \E i, j \in 1..Len(l) :
                               i < j /\ l[i] = s[a] /\ l[j] = s[b]

\* C2 witness: jobs [1:A, 2:B] with the map {"1": true, "2": false} display
\* [1:A].
C2_ExampleReached ==
    /\ uc.returned
    /\ jobs.list = <<Job(1), Job(2)>>
    /\ ~uc.checkbox_states.isNone
    /\ uc.checkbox_states.map = (<<"1">> :> TRUE @@ <<"2">> :> FALSE)
    /\ selected_jobs.list = <<Job(1)>>

\* C8: whenever the list_jobs call of an event failed, no callback of the
\* event raised and the grid is empty.
C8_FailedListNeverRaises ==
    event.list_jobs = "failed" => (event.raised = "none" /\ job_cards = <<>>)

\* C10: every step that changes the checkbox-states store is an Apply click.
C10_OnlyApplyCommits ==
    [][checkbox_states' # checkbox_states => Apply]_vars

\* C10 witness: after a commit, the modal is open with a search text typed
\* and a checkbox whose value differs from the committed map.
C10_DraftDiffersFromCommitted ==
    /\ ~checkbox_states.isNone
    /\ is_open /\ search_value # <<>>
    /\ \E i \in 1..Len(job_list_container) :
          LET box == job_list_container[i]
          IN  /\ Str(box.index) \in DOMAIN checkbox_states.map
              /\ checkbox_states.map[Str(box.index)] # box.value

---------------------------------------------------------------------------
(* Properties of the grid and the run table (SpecGrid) *)

\* The last event was a refresh whose update_cards returned: job_cards is
\* the grid of selected_jobs for api_runs at `now`.
Rendered == event = Event("none", "ok")

ShownJob(i) == selected_jobs.list[i]
ShownRuns(i) == api_runs[ShownJob(i).job_id]

\* The runs/list request succeeded with at least one run.
HasRun(resp) == resp.status_code = 200 /\ resp.runs # <<>>

Active(run) == run.life_cycle_state \in {"RUNNING", "PENDING"}

Plural(n) == Str(n) \o (IF n = 1 THEN SECOND ELSE SECONDS)

\* C3 as stated: a last run with result_state MAXIMUM_CONCURRENT_RUNS_REACHED
\* is red for every lifecycle_state.
C3_MaxConcurrentAlwaysRed ==
    Rendered =>
        \A i \in 1..Len(job_cards) :
            (/\ HasRun(ShownRuns(i))
             /\ ShownRuns(i).runs[1].result_state
                    = "MAXIMUM_CONCURRENT_RUNS_REACHED")
                => job_cards[i].color = "red"

\* C3 amended: a last run with result_state MAXIMUM_CONCURRENT_RUNS_REACHED
\* is red for every lifecycle_state except RUNNING, where it has the
\* running colour: the lifecycle test comes before this result_state test.
C3_MaxConcurrentRedUnlessRunning ==
    Rendered =>
        \A i \in 1..Len(job_cards) :
            (/\ HasRun(ShownRuns(i))
             /\ ShownRuns(i).runs[1].result_state
                    = "MAXIMUM_CONCURRENT_RUNS_REACHED")
                => /\ job_cards[i].color =
                          IF ShownRuns(i).runs[1].life_cycle_state = "RUNNING"
                          THEN "#ed9a00" ELSE "red"
                   /\ job_cards[i].border_color = job_cards[i].color

\* C3 witness: a rendered card of a RUNNING run with result_state
\* MAXIMUM_CONCURRENT_RUNS_REACHED, in the running colour.
C3_RunningMaxConcurrentReached ==
    /\ Rendered
    /\ \E i \in 1..Len(job_cards) :
          /\ HasRun(ShownRuns(i))
          /\ ShownRuns(i).runs[1].result_state = "MAXIMUM_CONCURRENT_RUNS_REACHED"
          /\ ShownRuns(i).runs[1].life_cycle_state = "RUNNING"
          /\ job_cards[i].color = "#ed9a00"

NamedResults == {"SUCCESS", "FAILED", "MAXIMUM_CONCURRENT_RUNS_REACHED"}

\* C4 as stated: SUCCESS is green and FAILED red whatever the lifecycle; an
\* absent result with RUNNING has the running colour; every other
\* combination without MAXIMUM_CONCURRENT_RUNS_REACHED is gray.
C4_ColorTableAsStated ==
    Rendered =>
        \A i \in 1..Len(job_cards) :
            HasRun(ShownRuns(i)) =>
                LET rs == ShownRuns(i).runs[1].result_state
                    lc == ShownRuns(i).runs[1].life_cycle_state
                    color == job_cards[i].color
                IN  /\ rs = "SUCCESS" => color = "#008f00"
                    /\ rs = "FAILED" => color = "red"
                    /\ (rs = Absent /\ lc = "RUNNING") => color = "#ed9a00"
                    /\ (rs \notin NamedResults /\ ~(rs = Absent /\ lc = "RUNNING"))
                          => color = "gray"

\* C4 amended: SUCCESS is green and FAILED red whatever the lifecycle; a
\* result that is absent or unknown has the running colour with RUNNING and
\* is gray with every other lifecycle_state.
C4_ColorTable ==
    Rendered =>
        \A i \in 1..Len(job_cards) :
            HasRun(ShownRuns(i)) =>
                LET rs == ShownRuns(i).runs[1].result_state
                    lc == ShownRuns(i).runs[1].life_cycle_state
                    color == job_cards[i].color
                IN  /\ rs = "SUCCESS" => color = "#008f00"
                    /\ rs = "FAILED" => color = "red"
                    /\ (rs \notin NamedResults /\ lc = "RUNNING")
                          => color = "#ed9a00"
                    /\ (rs \notin NamedResults /\ lc # "RUNNING")
                          => color = "gray"

\* C4 witness: a rendered card of a RUNNING run with an unknown result, in
\* the running colour, beside the case of a RUNNING run that is SUCCESS.
C4_RunningUnknownResultReached ==
    /\ Rendered
    /\ \E i \in 1..Len(job_cards) :
          /\ HasRun(ShownRuns(i))
          /\ ShownRuns(i).runs[1].result_state = "CANCELED"
          /\ ShownRuns(i).runs[1].life_cycle_state = "RUNNING"
          /\ job_cards[i].color = "#ed9a00"

\* C5: after a refresh, the card of every displayed job whose last run is
\* RUNNING or PENDING with a start_time and no end_time shows the whole
\* seconds between start_time and now.
C5_ElapsedWhileActive ==
    event.list_jobs = "ok" =>
        \A i \in 1..Len(selected_jobs.list) :
            (/\ HasRun(ShownRuns(i))
             /\ Active(ShownRuns(i).runs[1])
             /\ Truthy(ShownRuns(i).runs[1].start_time)
             /\ ShownRuns(i).runs[1].end_time.isNone)
                => /\ event.raised = "none"
                   /\ job_cards[i].duration_text =
                          Plural((now - ShownRuns(i).runs[1].start_time.v)
                                     \div 1000)

\* The duration text C6 states for a run that is not active.
StatedDuration(run) ==
    IF run.start_time.isNone \/ run.end_time.isNone THEN NA
    ELSE Plural((run.end_time.v - run.start_time.v) \div 1000)

\* C6: for every displayed job whose run is neither RUNNING nor PENDING,
\* the card after a refresh and the row of the run table after a click show
\* floor((end_time - start_time)/1000) with " second" for 1 and " seconds"
\* otherwise, or "N/A" when a time is absent; neither callback raises.
C6_FinishedDuration ==
    \A i \in 1..Len(selected_jobs.list) :
        (HasRun(ShownRuns(i)) /\ ~Active(ShownRuns(i).runs[1])) =>
            /\ event.list_jobs = "ok" =>
                  /\ event.raised = "none"
                  /\ job_cards[i].duration_text
                         = StatedDuration(ShownRuns(i).runs[1])
            /\ (Len(selected_jobs.list) = 1 /\ event.list_jobs = "none")
                  => event.raised = "none"
            /\ button_click_output.title = JobName(ShownJob(i)) =>
                  button_click_output.rows[1].duration
                      = StatedDuration(ShownRuns(i).runs[1])

\* C7 as stated: the card of a job without a last run shows "N/A" in every
\* run field, is gray, and has neither text in bold.
C7_PlaceholderNoBold ==
    Rendered =>
        \A i \in 1..Len(job_cards) :
            ~HasRun(ShownRuns(i)) =>
                /\ job_cards[i].lifecycle_text = "N/A"
                /\ job_cards[i].result_text = "N/A"
                /\ job_cards[i].start_time_text = NATime
                /\ job_cards[i].duration_text = NA
                /\ job_cards[i].color = "gray"
                /\ job_cards[i].border_color = "gray"
                /\ job_cards[i].lifecycle_weight # "bold"
                /\ job_cards[i].result_weight # "bold"

\* C7 amended: the card of a job without a last run shows "N/A" in every
\* run field and is gray; its lifecycle text is normal and its result text
\* ("N/A") is bold.
C7_PlaceholderCard ==
    Rendered =>
        \A i \in 1..Len(job_cards) :
            ~HasRun(ShownRuns(i)) =>
                /\ job_cards[i].lifecycle_text = "N/A"
                /\ job_cards[i].result_text = "N/A"
                /\ job_cards[i].start_time_text = NATime
                /\ job_cards[i].duration_text = NA
                /\ job_cards[i].color = "gray"
                /\ job_cards[i].border_color = "gray"
                /\ job_cards[i].lifecycle_weight = "normal"
                /\ job_cards[i].result_weight = "bold"

\* C7 witness: a rendered card of a job whose runs list is empty.
C7_NoLastRunReached ==
    /\ Rendered
    /\ \E i \in 1..Len(job_cards) :
          /\ ShownRuns(i) = RunsOk(<<>>)
          /\ job_cards[i].result_weight = "bold"
          /\ job_cards[i].color = "gray"

\* A displayed job whose run makes lastRun and create_run_table raise.
SomeRunLacksATime ==
    \E i \in 1..Len(selected_jobs.list) :
        /\ HasRun(ShownRuns(i))
        /\ \/ ShownRuns(i).runs[1].start_time.isNone
           \/ ShownRuns(i).runs[1].end_time.isNone

\* C9: a failed or empty runs/list answer for a job never makes a callback
\* raise; in a rendered grid that job's card is the placeholder and every
\* other card shows the states and start time of its own job's last run;
\* the run table of that job has no rows.
C9_PerJobSoftFailure ==
    /\ event.raised # "none" => SomeRunLacksATime
    /\ Rendered =>
          /\ Len(job_cards) = Len(selected_jobs.list)
          /\ \A i \in 1..Len(job_cards) :
                /\ job_cards[i].job_id = ShownJob(i).job_id
                /\ job_cards[i].title = JobName(ShownJob(i))
                /\ IF HasRun(ShownRuns(i))
                   THEN LET run == ShownRuns(i).runs[1]
                        IN  /\ job_cards[i].lifecycle_text
                                   = StateGet(run.life_cycle_state)
                            /\ job_cards[i].result_text
                                   = StateGet(run.result_state)
                            /\ job_cards[i].start_time_text =
                                   IF run.start_time.v # 0
                                   THEN FormatTime(run.start_time.v)
                                   ELSE NATime
                   ELSE /\ job_cards[i].lifecycle_text = "N/A"
                        /\ job_cards[i].result_text = "N/A"
                        /\ job_cards[i].start_time_text = NATime
                        /\ job_cards[i].duration_text = NA
                        /\ job_cards[i].color = "gray"
    /\ \A i \in 1..Len(selected_jobs.list) :
          (button_click_output.title = JobName(ShownJob(i))
               /\ ~HasRun(ShownRuns(i)))
              => button_click_output.rows = <<>>

\* C9 witness: a rendered grid of two cards, one the gray placeholder of a
\* job whose runs request failed, the other green from its own last run.
C9_FailedBesideRenderedReached ==
    /\ Rendered
    /\ \E i, j \in 1..Len(job_cards) :
          /\ ShownRuns(i) = RunsFailed
          /\ job_cards[i].color = "gray"
          /\ HasRun(ShownRuns(j))
          /\ job_cards[j].color = "#008f00"
          /\ job_cards[j].result_text = "SUCCESS"

---------------------------------------------------------------------------
(* Properties of the selection modal (Spec) *)

\* The value the committed map holds for a job id: false when there is no
\* map or no key.
Committed(index) ==
    /\ ~checkbox_states.isNone
    /\ MapGet(checkbox_states.map, Str(index))

\* Every rendered checkbox shows the committed value of its job.
DraftIsCommitted ==
    \A i \in 1..Len(job_list_container) :
        job_list_container[i].value = Committed(job_list_container[i].index)

\* C11: a close of the modal without Apply discards the draft: after the
\* close every checkbox is back at its committed value, so that a later
\* Apply without further edits commits none of the discarded edits.
C11_CloseDiscardsDraft ==
    [][CloseModal => DraftIsCommitted']_vars

\* The draft of every job: the checkboxes the modal renders for the empty
\* search text, with the values the browser keeps for them.
AllDraft ==
    ApplyPersistence(update_job_list(<<>>, jobs).rows, persisted)

\* C12: right after a click on See All every job's draft checkbox holds one
\* and the same value, whatever the values were and whatever search text
\* is entered.
C12_SeeAllSetsEveryDraft ==
    [][SeeAll => \A i, j \in 1..Len(AllDraft') :
                     AllDraft'[i].value = AllDraft'[j].value]_vars

---------------------------------------------------------------------------
(* The name filter of the modal against named and unnamed jobs *)

\* The longest job list the filter is given.
MaxFilterJobs == 2

\* Jobs as the service lists them: two named ones and one without a name.
FilterJobs ==
    {[job_id |-> 1, name |-> [isNone |-> FALSE, s |-> <<"E", "T", "L">>]],
     [job_id |-> 2, name |-> [isNone |-> FALSE, s |-> <<"L", "o", "a", "d">>]],
     [job_id |-> 3, name |-> [isNone |-> TRUE, s |-> <<>>]]}

FilterLists ==
    UNION {{f \in [1..n -> FilterJobs] :
               \A a, b \in 1..n : f[a] = f[b] => a = b} :
           n \in 0..MaxFilterJobs}

\* What is typed in the search box.
FilterTexts ==
    {<<>>, <<"e", "t", "l">>, <<"E", "T", "L">>, <<"t", "L">>, <<"l">>,
     <<"L", "O">>, <<"d">>, <<"j", "o", "b">>, <<"I", "D", ":", " ", "3">>,
     <<"x">>, <<"e", "t", "l", "x">>}

\* A loaded page with the modal open on the whole job list.
InitFilter ==
    \E l \in FilterLists :
        /\ jobs = SomeList(l)
        /\ selected_jobs = SomeList(l)
        /\ checkbox_states = NoneMap
        /\ isRorL = 0
        /\ job_cards =
               create_card_rows(SomeList(l),
                                [id \in ListIds(l) |-> RunsOk(<<DoneRun>>)],
                                T0).rows
        /\ button_click_output = initRunSection
        /\ is_open = TRUE
        /\ search_value = <<>>
        /\ job_list_container = update_job_list(<<>>, SomeList(l)).rows
        /\ persisted = {}
        /\ page = "ready"
        /\ event = NoEvent
        /\ uc = Returned(NoneMap)
        /\ api_runs = [id \in ListIds(l) |-> RunsOk(<<DoneRun>>)]
        /\ now = T0

\* The user changes the search text.
FilterSearch == TypeSearchOf(FilterTexts)

NextFilter ==
    \/ FilterSearch
    \/ EditCheckbox

SpecFilter == InitFilter /\ [][NextFilter]_vars

---------------------------------------------------------------------------
(* Properties of the name filter (SpecFilter) *)

\* Two characters are the same letter up to case.
SameLetter(a, b) ==
    \/ a = b
    \/ \E i \in 1..26 : {a, b} = {UPPER[i], LOWER[i]}

\* The display name of a job: settings.name, or "Job ID: <id>".
DisplayName(job) ==
    IF job.name.isNone
    THEN <<"J", "o", "b", " ", "I", "D", ":", " ">> \o Str(job.job_id)
    ELSE job.name.s

\* The query occurs in the display name, case ignored.
NameHasQuery(job, q) ==
    LET name == DisplayName(job)
    IN  \E off \in 0..Len(name) :
            /\ off + Len(q) <= Len(name)
            /\ \A k \in 1..Len(q) : SameLetter(name[off + k], q[k])

\* C13: the modal lists exactly the jobs whose display name contains the
\* search text as a case-insensitive substring, each once and in job-list
\* order, under its display name; the empty text lists every job.
C13_FilterByName ==
    LET l == jobs.list
        c == job_list_container
        hits == {i \in 1..Len(l) : NameHasQuery(l[i], search_value)}
    IN  /\ Len(c) = Cardinality(hits)
        /\ \A i \in hits : \E k \in 1..Len(c) :
              c[k].index = l[i].job_id /\ c[k].label = DisplayName(l[i])
        /\ \A a, b \in 1..Len(c) :
              a < b => \E i, j \in hits :
                           i < j /\ l[i].job_id = c[a].index
                                 /\ l[j].job_id = c[b].index
        /\ search_value = <<>> => Len(c) = Len(l)

\* C13 witness: the text "etl" keeps the job named "ETL" and drops the
\* job named "Load" listed before it.
C13_CaseInsensitiveHitReached ==
    /\ search_value = <<"e", "t", "l">>
    /\ Len(jobs.list) = 2
    /\ jobs.list[1].job_id = 2 /\ jobs.list[2].job_id = 1
    /\ Len(job_list_container) = 1
    /\ job_list_container[1].index = 1
    /\ job_list_container[1].label = <<"E", "T", "L">>

---------------------------------------------------------------------------
(* Further properties of the grid (SpecGrid) *)

\* C14: on every rendered card of a job that has a last run, the lifecycle
\* text is bold and the result text normal if the run is RUNNING or
\* PENDING, and the lifecycle text is normal and the result text bold for
\* every other lifecycle state; exactly one of the two is bold.
C14_OneTextBold ==
    Rendered =>
        \A i \in 1..Len(job_cards) :
            HasRun(ShownRuns(i)) =>
                LET lc == ShownRuns(i).runs[1].life_cycle_state
                    card == job_cards[i]
                IN  /\ lc \in {"RUNNING", "PENDING"} =>
                          /\ card.lifecycle_weight = "bold"
                          /\ card.result_weight = "normal"
                    /\ lc \notin {"RUNNING", "PENDING"} =>
                          /\ card.lifecycle_weight = "normal"
                          /\ card.result_weight = "bold"
                    /\ (card.lifecycle_weight = "bold")
                           # (card.result_weight = "bold")

\* C14 witness: a grid with the card of a pending run, lifecycle text bold,
\* beside the card of a finished run, result text bold.
C14_PendingBesideFinishedReached ==
    /\ Rendered
    /\ \E i, j \in 1..Len(job_cards) :
          /\ HasRun(ShownRuns(i)) /\ HasRun(ShownRuns(j))
          /\ ShownRuns(i).runs[1].life_cycle_state = "PENDING"
          /\ job_cards[i].lifecycle_weight = "bold"
          /\ job_cards[i].result_weight = "normal"
          /\ ShownRuns(j).runs[1].life_cycle_state = "TERMINATED"
          /\ job_cards[j].lifecycle_weight = "normal"
          /\ job_cards[j].result_weight = "bold"

---------------------------------------------------------------------------
(* Properties of the cards and the stores (Spec) *)

\* What display_click returns for a click on the button of a card, when the
\* service lists one finished run for every job.
ClickOn(card) ==
    display_click(card.button_index, selected_jobs,
                  [id \in JobIds |-> RunsOk(<<DoneRun>>)], now)

\* C16: the card with button index i shows the job stored at
\* selected_jobs[i]; a click on its button stays within selected_jobs and
\* shows the run table of the job the card displays.
C16_CardsMatchSelectedJobs ==
    \A i \in 1..Len(job_cards) :
        LET card == job_cards[i]
        IN  /\ card.button_index = i - 1
            /\ ~selected_jobs.isNone
            /\ card.button_index < Len(selected_jobs.list)
            /\ selected_jobs.list[card.button_index + 1].job_id = card.job_id
            /\ card.title = JobName(selected_jobs.list[card.button_index + 1])
            /\ ~ClickOn(card).raised
            /\ ClickOn(card).title = card.title
            /\ Len(ClickOn(card).rows) = 1
            /\ ClickOn(card).rows[1].job_name = card.title

\* C16 witness: after an Apply that selects job 2 only, the first card
\* shows job 2 although the job list starts with job 1.
C16_FilteredCardReached ==
    /\ ~jobs.isNone /\ Len(jobs.list) = 2 /\ jobs.list[1].job_id = 1
    /\ ~checkbox_states.isNone
    /\ Len(job_cards) = 1
    /\ job_cards[1].job_id = 2
    /\ job_cards[1].button_index = 0
    /\ ClickOn(job_cards[1]).title = JobName(Job(2))

\* C17: an Apply click replaces the committed map by the map of the
\* checkboxes rendered at the click: its keys are exactly their job ids as
\* strings, each with the value of its checkbox, whatever was committed
\* before.
C17_ApplyReplacesMap ==
    [][Apply =>
          /\ ~checkbox_states'.isNone
          /\ DOMAIN checkbox_states'.map =
                 {Str(job_list_container[i].index) :
                      i \in 1..Len(job_list_container)}
          /\ \A i \in 1..Len(job_list_container) :
                 checkbox_states'.map[Str(job_list_container[i].index)]
                     = job_list_container[i].value]_vars

\* C17 witness: with the search text hiding job 2, an Apply has committed a
\* map with the single key "1" for a job list of two jobs.
C17_FilteredCommitReached ==
    /\ ~jobs.isNone /\ Len(jobs.list) = 2
    /\ search_value = <<"a">>
    /\ ~is_open
    /\ ~checkbox_states.isNone
    /\ DOMAIN checkbox_states.map = {<<"1">>}
    /\ uc = Returned(checkbox_states)

\* C18: update_cards fetches the job list on the initial load and on a
\* refresh click; a change of checkbox-states (the store handing over its
\* data, or an Apply) fetches it only if it is the first of the page
\* session, which sets isRorL from 0 to 1, and every later one leaves the
\* jobs store as it is without a fetch; isRorL goes back to 0 only with a
\* page load.
C18_FetchPolicy ==
    [][/\ (PageLoad \/ Refresh) => event'.list_jobs # "none"
       /\ (StoreHydrate \/ Apply) =>
             /\ isRorL' = 1
             /\ isRorL = 0 => event'.list_jobs # "none"
             /\ isRorL = 1 => (event'.list_jobs = "none" /\ jobs' = jobs)
       /\ (isRorL = 1 /\ isRorL' = 0) => PageLoad]_vars

---------------------------------------------------------------------------
(* newConnection.py: the earlier revision, with the job list in a module
   variable *)

\* list_jobs(): the parsed list on status 200; otherwise the function ends
\* without a return statement, which is None.
nc_list_jobs(response) ==
    IF response.status_code = 200 THEN SomeList(response.jobs) ELSE NoneList

\* jobRuns(job_id): the runs, or [] on a non-200 status.
nc_jobRuns(responseR) ==
    IF responseR.status_code = 200 THEN responseR.runs ELSE <<>>

\* The duration text of lines 66-76 and 178-186: whole seconds with
\* ' seconds', 'N/A' for a zero difference, '0' when there is no result yet.
nc_FormattedDuration(start_time, end_time, result_state) ==
    LET duration_ms == end_time.v - start_time.v
    IN  IF result_state = "N/A" THEN Str(0)
        ELSE IF duration_ms # 0 THEN Str(duration_ms \div 1000) \o SECONDS
        ELSE NA

\* The colour chain of lines 79 and 183; `ok` is its colour for SUCCESS.
nc_ResultColor(result_state, ok) ==
    IF result_state = "SUCCESS" THEN ok
    ELSE IF result_state = "FAILED" THEN "red"
    ELSE IF result_state = "RUNNING" THEN "blue"
    ELSE "black"

\* lastRun(job_id): None without a run, TypeError when a time is None.
nc_lastRun(responseR) ==
    IF responseR.status_code # 200 \/ responseR.runs = <<>>
    THEN [kind |-> "None", formatted_start_time |-> NATime,
          formatted_duration |-> NA, life_cycle_state |-> "N/A",
          result_state |-> "N/A", result_color |-> "N/A"]
    ELSE
      LET run == responseR.runs[1]
          result_state == StateGet(run.result_state)
      IN  IF run.start_time.isNone \/ run.end_time.isNone
          THEN [kind |-> "TypeError", formatted_start_time |-> NATime,
                formatted_duration |-> NA, life_cycle_state |-> "N/A",
                result_state |-> "N/A", result_color |-> "N/A"]
          ELSE [kind |-> "run",
                formatted_start_time |->
                    IF Truthy(run.start_time)
                    THEN FormatTime(run.start_time.v) ELSE NATime,
                formatted_duration |->
                    nc_FormattedDuration(run.start_time, run.end_time,
                                         result_state),
                life_cycle_state |-> StateGet(run.life_cycle_state),
                result_state |-> result_state,
                result_color |-> nc_ResultColor(result_state, "#00f600")]

\* One card of create_card_rows (lines 98-114); the button carries the
\* position of the job in the list the cards are made from.
nc_Card(job, last_run, idx) ==
    [job_id |-> job.job_id,
     title |-> JobName(job),
     start_time_text |-> last_run.formatted_start_time,
     duration_text |-> last_run.formatted_duration,
     state_text |-> last_run.life_cycle_state,
     result_text |-> last_run.result_state,
     color |-> last_run.result_color,
     button_index |-> idx]

\* create_card_rows(jobs): raises when jobs is None or a lastRun raises.
nc_create_card_rows(jobs_arg, runs_api) ==
    IF jobs_arg.isNone THEN [raised |-> TRUE, rows |-> <<>>]
    ELSE
      LET js == jobs_arg.list
      IN  IF \E i \in 1..Len(js) :
                 nc_lastRun(runs_api[js[i].job_id]).kind = "TypeError"
          THEN [raised |-> TRUE, rows |-> <<>>]
          ELSE [raised |-> FALSE,
                rows |-> [i \in 1..Len(js) |->
                             nc_Card(js[i], nc_lastRun(runs_api[js[i].job_id]),
                                     i - 1)]]

\* create_run_list(runs, job_name): one row per run; line 178 raises on a
\* run whose start_time or end_time is None.
nc_create_run_list(runs, job_name) ==
    IF \E i \in 1..Len(runs) : runs[i].start_time.isNone \/ runs[i].end_time.isNone
    THEN [title |-> job_name, raised |-> TRUE, rows |-> <<>>]
    ELSE [title |-> job_name, raised |-> FALSE,
          rows |-> [i \in 1..Len(runs) |->
              LET result_state == StateGet(runs[i].result_state)
              IN  [job_name |-> job_name,
                   start_time |->
                       IF Truthy(runs[i].start_time)
                       THEN FormatTime(runs[i].start_time.v) ELSE NATime,
                   duration |->
                       nc_FormattedDuration(runs[i].start_time,
                                            runs[i].end_time, result_state),
                   lifecycle_state |-> StateGet(runs[i].life_cycle_state),
                   result_state |-> result_state,
                   result_color |-> nc_ResultColor(result_state, "green")]]]

\* display_click for a click on the button with the given index (lines
\* 209-238): the run list of jobs[index], `jobs_global` being the module
\* variable of line 53. Raises IndexError past its end.
nc_display_click(index, jobs_global, runs_api) ==
    IF index >= Len(jobs_global.list)
    THEN [title |-> <<>>, raised |-> TRUE, rows |-> <<>>]
    ELSE LET job == jobs_global.list[index + 1]
         IN  nc_create_run_list(nc_jobRuns(runs_api[job.job_id]), JobName(job))

\* update_cards(n): the cards of a freshly fetched list, kept in a local
\* variable named jobs; the module variable is not assigned.
nc_update_cards(response, runs_api) ==
    nc_create_card_rows(nc_list_jobs(response), runs_api)

\* What runs/list answers for a job while the server runs.
NcRuns == {RunsFailed, RunsOk(<<>>), RunsOk(<<DoneRun>>)}

\* The server has started: line 53 fetched the job list into the module
\* variable `jobs` (a failed fetch leaves None there and the layout of line
\* 145 raises, so no server starts), the layout holds its cards, and a page
\* is open on it.
InitNC ==
    \E l \in JobLists, runs_api \in [JobIds -> NcRuns] :
        /\ jobs = SomeList(l)
        /\ api_runs = runs_api
        /\ job_cards = nc_create_card_rows(SomeList(l), runs_api).rows
        /\ button_click_output = initRunSection
        /\ selected_jobs = NoneList
        /\ checkbox_states = NoneMap
        /\ isRorL = 0
        /\ is_open = FALSE
        /\ search_value = <<>>
        /\ job_list_container = <<>>
        /\ persisted = {}
        /\ page = "ready"
        /\ event = NoEvent
        /\ uc = NoCall
        /\ now = T0

\* The interval fires: update_cards.
IntervalTickNC ==
    \E response \in JobsResponses :
        LET r == nc_update_cards(response, api_runs)
        IN  /\ job_cards' = IF r.raised THEN job_cards ELSE r.rows
            /\ event' = Event(IF r.raised THEN "update_cards" ELSE "none",
                              IF response.status_code = 200
                              THEN "ok" ELSE "failed")
            /\ UNCHANGED <<jobs, selected_jobs, checkbox_states, isRorL,
                           button_click_output, is_open, search_value,
                           job_list_container, persisted, page, uc, api_runs,
                           now>>

\* A click on the Show All Runs button of a card: display_click.
ShowAllRunsNC ==
    \E i \in 1..Len(job_cards) :
        LET r == nc_display_click(job_cards[i].button_index, jobs, api_runs)
        IN  /\ button_click_output' =
                   IF r.raised THEN button_click_output ELSE r
            /\ event' = Event(IF r.raised THEN "display_click" ELSE "none",
                              "none")
            /\ UNCHANGED <<jobs, selected_jobs, checkbox_states, isRorL,
                           job_cards, is_open, search_value,
                           job_list_container, persisted, page, uc, api_runs,
                           now>>

\* The page is reloaded: the layout built at startup is served again.
PageLoadNC ==
    /\ job_cards' = nc_create_card_rows(jobs, api_runs).rows
    /\ button_click_output' = initRunSection
    /\ event' = NoEvent
    /\ UNCHANGED <<jobs, selected_jobs, checkbox_states, isRorL, is_open,
                   search_value, job_list_container, persisted, page, uc,
                   api_runs, now>>

NextNC ==
    \/ IntervalTickNC
    \/ ShowAllRunsNC
    \/ PageLoadNC

SpecNC == InitNC /\ [][NextNC]_vars

---------------------------------------------------------------------------
(* Property of newConnection.py (SpecNC) *)

\* C19: a click on the Show All Runs button of any card on the page shows
\* the run list of the job that card displays, also after an interval
\* update whose job list differs from the one fetched at startup.
C19_ClickShowsCardJobNC ==
    \A i \in 1..Len(job_cards) :
        LET r == nc_display_click(job_cards[i].button_index, jobs, api_runs)
        IN  /\ ~r.raised
            /\ r.title = job_cards[i].title

=============================================================================
